---- MODULE Spec2Model ----
(***************************************************************************)
(* The desktop mascot of desktop_image.py: CharacterWindow's mood state    *)
(* machine (state, click_count, the revert QTimer, the sleep QTimer) and   *)
(* its image pools (images, last_image, the label's pixmap), driven by     *)
(* clicks on the label, the two timers' timeouts and the character         *)
(* selector's currentTextChanged signal.  All handlers run on the Qt       *)
(* event thread, so each handler is one atomic action.                     *)
(***************************************************************************)
EXTENDS Integers, FiniteSets, Sequences, TLC

VARIABLES
    state,               \* self.state
    click_count,         \* self.click_count
    timer_active,        \* self.timer (the revert QTimer) is running
    sleep_timer_active,  \* self.sleep_timer is running
    selected_character,  \* self.selected_character
    combo_text,          \* self.character_selector.currentText()
    images,              \* self.images: state -> pool of image paths
    last_image,          \* self.last_image
    label,               \* the pixmap self.label shows (None: cleared)
    roots,               \* character folders that exist under desktop_image/image
    diagnostic,          \* what the last handler reported (print / QMessageBox)
    \* history variables: the event handled last and the state it found
    last_event,
    pre,
    streak,              \* primary clicks in a row since state normal, count 0
    wake_seq,            \* progress of sleep tick (from normal), click, revert
    wake_count           \* click_count when that sleep tick came

vars == <<state, click_count, timer_active, sleep_timer_active,
          selected_character, combo_text, images, last_image, label, roots,
          diagnostic, last_event, pre, streak, wake_seq, wake_count>>

---------------------------------------------------------------------------
(* Constants of the program *)

STATES == {"01_normal", "02_smile", "03_oko", "04_sleep", "05_on"}

EXCLUDE_FOLDER == "00_original"

ClickThreshold == 5

\* random.choice(["02_smile", "03_oko"])
ClickedMoods == {"02_smile", "03_oko"}

\* f.lower().endswith((".png", ".jpg", ".jpeg"))
AcceptedExtensions == {"png", "jpg", "jpeg"}

\* self.last_image = None ; a cleared label
None == <<>>

---------------------------------------------------------------------------
(* The environment: the asset tree under desktop_image/image.  A file is   *)
(* <<stem, extension>>; an image path is <<character, state, stem, ext>>.  *)

MaxRemoved == 1

Characters == {"00_original", "charA", "charB"}

\* the state subfolders each character folder holds
StateFolders(c) ==
    CASE c = "00_original" -> STATES
      [] c = "charA"       -> STATES
      [] c = "charB"       -> {"01_normal", "03_oko", "04_sleep"}
      [] OTHER             -> {}

\* os.listdir of a state subfolder
Listdir(c, s) ==
    CASE c = "00_original" /\ s = "01_normal" -> {<<"n0", "png">>}
      [] c = "00_original" /\ s = "02_smile"  -> {<<"s0", "png">>}
      [] c = "00_original" /\ s = "03_oko"    -> {<<"o0", "png">>}
      [] c = "00_original" /\ s = "04_sleep"  -> {<<"z0", "png">>}
      [] c = "00_original" /\ s = "05_on"     -> {<<"w0", "png">>}
      [] c = "charA" /\ s = "01_normal" -> {<<"a1", "png">>, <<"a2", "JPG">>, <<"memo", "txt">>}
      [] c = "charA" /\ s = "02_smile"  -> {<<"as", "Jpeg">>, <<"as2", "png">>}
      [] c = "charA" /\ s = "03_oko"    -> {<<"ao", "png">>, <<"ao", "gif">>}
      [] c = "charA" /\ s = "04_sleep"  -> {}
      [] c = "charA" /\ s = "05_on"     -> {<<"aw", "PNG">>}
      [] c = "charB" /\ s = "01_normal" -> {<<"b1", "png">>, <<"b2", "png">>}
      [] c = "charB" /\ s = "03_oko"    -> {<<"bo", "jpg">>}
      [] c = "charB" /\ s = "04_sleep"  -> {<<"bz", "jpeg">>, <<"bz", "bmp">>}
      [] OTHER -> {}

\* files QPixmap cannot decode (pixmap.isNull())
Unreadable == {<<"charB", "01_normal", "b2", "png">>}

\* str.lower() on the extensions that occur
Lower(ext) ==
    CASE ext = "JPG"  -> "jpg"
      [] ext = "Jpeg" -> "jpeg"
      [] ext = "PNG"  -> "png"
      [] OTHER        -> ext

\* the folders get_character_folders() lists at startup
CharacterFolders == Characters \ {EXCLUDE_FOLDER}

---------------------------------------------------------------------------
(* load_images *)

Accepted(f) == Lower(f[2]) \in AcceptedExtensions

\* the accepted image paths of a character's state subfolder
FolderImages(c, s) == {<<c, s, f[1], f[2]>> : f \in {g \in Listdir(c, s) : Accepted(g)}}

FolderExists(rs, c, s) == c \in rs /\ s \in StateFolders(c)

load_images(imgs, rs, c) ==
    [s \in STATES |-> IF FolderExists(rs, c, s) THEN FolderImages(c, s) ELSE imgs[s]]

---------------------------------------------------------------------------
(* show_random_image *)

Unavailable == <<"unavailable">>

\* variant: random.choice over the whole list
CandidatesNoFilter(pool, last) == pool

\* available_images, with the fall-back to the whole list
Candidates(pool, last) ==
    LET available == {img \in pool : img # last}
    IN  IF available = {} THEN pool ELSE available

\* variant: no fall-back when the filter leaves nothing
PickNoFallback(pool, last) ==
    IF pool = {} \/ {img \in pool : img # last} = {} THEN {Unavailable}
    ELSE {img \in pool : img # last}

\* what the selection can yield: no image, or one of random.choice's results
Pick(pool, last) ==
    IF pool = {} THEN {Unavailable} ELSE Candidates(pool, last)

\* variant: last_image is assigned only once the pixmap is shown
DisplayKeepOnFailure(r, last) ==
    IF r = Unavailable
    THEN [last_image |-> last, label |-> None, diagnostic |-> "no_image"]
    ELSE IF r \in Unreadable
    THEN [last_image |-> last, label |-> None, diagnostic |-> "display_failed"]
    ELSE [last_image |-> r, label |-> r, diagnostic |-> "none"]

\* the label, last_image and the report after the selection yielded r
Display(r, last) ==
    IF r = Unavailable
    THEN [last_image |-> last, label |-> None, diagnostic |-> "no_image"]
    ELSE IF r \in Unreadable
    THEN [last_image |-> r, label |-> None, diagnostic |-> "display_failed"]
    ELSE [last_image |-> r, label |-> r, diagnostic |-> "none"]

show_random_image(pool, last) == {Display(r, last) : r \in Pick(pool, last)}

Shows(pool) ==
    \E d \in show_random_image(pool, last_image) :
        /\ last_image' = d.last_image
        /\ label' = d.label
        /\ diagnostic' = d.diagnostic

---------------------------------------------------------------------------
(* History *)

Snapshot ==
    [state |-> state, click_count |-> click_count, timer_active |-> timer_active,
     last_image |-> last_image, label |-> label,
     selected_character |-> selected_character, images |-> images, roots |-> roots]

Handled(kind, arg) ==
    /\ last_event' = [kind |-> kind, arg |-> arg]
    /\ pre' = Snapshot
    /\ streak' =
         IF kind = "click" /\ arg = "left"
         THEN IF state = "01_normal" /\ click_count = 0 THEN 1
              ELSE IF streak \in 1..(ClickThreshold - 1) THEN streak + 1 ELSE 0
         ELSE 0
    /\ wake_seq' =
         CASE kind = "sleep_timer" /\ state = "01_normal" -> 1
           [] kind = "click" /\ arg = "left" /\ wake_seq = 1 -> 2
           [] kind = "timer" /\ wake_seq = 2 -> 3
           [] OTHER -> 0
    /\ wake_count' =
         CASE kind = "sleep_timer" /\ state = "01_normal" -> click_count
           [] kind = "click" /\ arg = "left" /\ wake_seq = 1 -> wake_count
           [] kind = "timer" /\ wake_seq = 2 -> wake_count
           [] OTHER -> 0

---------------------------------------------------------------------------
(* The mood state machine: what each handler does to state, click_count    *)
(* and the revert timer, before it shows an image.                         *)

Core(st, cnt, tm) == [state |-> st, click_count |-> cnt, timer_active |-> tm]

\* variant: the fifth click is compared with > instead of >=
ClickTransitionOffByOne(st, cnt, tm) ==
    IF st = "01_normal"
    THEN IF cnt + 1 > ClickThreshold
         THEN {Core(m, 0, TRUE) : m \in ClickedMoods}
         ELSE {Core(st, cnt + 1, tm)}
    ELSE IF st = "04_sleep"
    THEN {Core("05_on", cnt, TRUE)}
    ELSE {Core(st, cnt, tm)}

\* variant: the click in sleep does not start the revert timer
ClickTransitionWakeNoTimer(st, cnt, tm) ==
    IF st = "01_normal"
    THEN IF cnt + 1 >= ClickThreshold
         THEN {Core(m, 0, TRUE) : m \in ClickedMoods}
         ELSE {Core(st, cnt + 1, tm)}
    ELSE IF st = "04_sleep"
    THEN {Core("05_on", cnt, tm)}
    ELSE {Core(st, cnt, tm)}

\* variant: the fifth click does not start the revert timer
ClickTransitionNoArm(st, cnt, tm) ==
    IF st = "01_normal"
    THEN IF cnt + 1 >= ClickThreshold
         THEN {Core(m, 0, tm) : m \in ClickedMoods}
         ELSE {Core(st, cnt + 1, tm)}
    ELSE IF st = "04_sleep"
    THEN {Core("05_on", cnt, TRUE)}
    ELSE {Core(st, cnt, tm)}

\* variant: the fifth click leaves click_count as counted
ClickTransitionNoReset(st, cnt, tm) ==
    IF st = "01_normal"
    THEN IF cnt + 1 >= ClickThreshold
         THEN {Core(m, cnt + 1, TRUE) : m \in ClickedMoods}
         ELSE {Core(st, cnt + 1, tm)}
    ELSE IF st = "04_sleep"
    THEN {Core("05_on", cnt, TRUE)}
    ELSE {Core(st, cnt, tm)}

\* variant: a plain else in place of the elif on 04_sleep
ClickTransitionElseWake(st, cnt, tm) ==
    IF st = "01_normal"
    THEN IF cnt + 1 >= ClickThreshold
         THEN {Core(m, 0, TRUE) : m \in ClickedMoods}
         ELSE {Core(st, cnt + 1, tm)}
    ELSE {Core("05_on", cnt, TRUE)}

\* handle_image_click, left button: the if / elif on self.state
ClickTransition(st, cnt, tm) ==
    IF st = "01_normal"
    THEN IF cnt + 1 >= ClickThreshold
         THEN {Core(m, 0, TRUE) : m \in ClickedMoods}
         ELSE {Core(st, cnt + 1, tm)}
    ELSE IF st = "04_sleep"
    THEN {Core("05_on", cnt, TRUE)}
    ELSE {Core(st, cnt, tm)}

\* variant: reset_state without self.timer.stop()
ResetTransitionNoStop(st, cnt, tm) == Core("01_normal", cnt, tm)

\* variant: reset_state that stops the timer and leaves the state
ResetTransitionStopOnly(st, cnt, tm) == Core(st, cnt, FALSE)

\* variant: reset_state that also clears click_count
ResetTransitionZeroCount(st, cnt, tm) == Core("01_normal", 0, FALSE)

\* reset_state: self.state = "01_normal" ... self.timer.stop()
ResetTransition(st, cnt, tm) == Core("01_normal", cnt, FALSE)

\* variant: go_to_sleep that only acts on an idle (normal) window
SleepTransitionOnlyIdle(st, cnt, tm) ==
    IF st = "01_normal" THEN Core("04_sleep", cnt, tm) ELSE Core(st, cnt, tm)

\* go_to_sleep: self.state = "04_sleep"; the revert timer is not touched
SleepTransition(st, cnt, tm) == Core("04_sleep", cnt, tm)

\* variant: change_character without self.click_count = 0
ChangeTransitionKeepCount(st, cnt, tm) == Core("01_normal", cnt, tm)

\* change_character, folder found: state and click_count are reset; the
\* revert timer is not touched
ChangeTransition(st, cnt, tm) == Core("01_normal", 0, tm)

---------------------------------------------------------------------------
(* Init: the window as CharacterWindow.__init__ leaves it *)

Init ==
    \E c \in Characters :
        /\ selected_character = c
        /\ combo_text \in (IF c \in CharacterFolders THEN {c} ELSE CharacterFolders)
        /\ roots = Characters
        /\ state = "01_normal"
        /\ click_count = 0
        /\ images = load_images([s \in STATES |-> {}], Characters, c)
        /\ \E d \in show_random_image(images["01_normal"], None) :
              /\ last_image = d.last_image
              /\ label = d.label
              /\ diagnostic = d.diagnostic
        /\ timer_active = FALSE
        /\ sleep_timer_active = TRUE
        /\ last_event = [kind |-> "init", arg |-> c]
        /\ pre = [state |-> "01_normal", click_count |-> 0, timer_active |-> FALSE,
                  last_image |-> None, label |-> None, selected_character |-> c,
                  images |-> [s \in STATES |-> {}], roots |-> Characters]
        /\ streak = 0
        /\ wake_seq = 0
        /\ wake_count = 0

---------------------------------------------------------------------------
(* The handlers *)

Buttons == {"left", "right"}

\* variant: the button is not looked at
AnyButton(button) == TRUE

\* event.button() == Qt.MouseButton.LeftButton
IsLeftButton(button) == button = "left"

handle_image_click(button) ==
    /\ IF IsLeftButton(button)
       THEN \E t \in ClickTransition(state, click_count, timer_active) :
               /\ state' = t.state
               /\ click_count' = t.click_count
               /\ timer_active' = t.timer_active
               /\ Shows(images[t.state])
       ELSE /\ UNCHANGED <<state, click_count, timer_active, last_image, label>>
            /\ diagnostic' = "none"
    /\ Handled("click", button)
    /\ UNCHANGED <<sleep_timer_active, selected_character, combo_text, images, roots>>

\* the revert timer's timeout
reset_state ==
    /\ timer_active
    /\ LET t == ResetTransition(state, click_count, timer_active)
       IN  /\ state' = t.state
           /\ click_count' = t.click_count
           /\ timer_active' = t.timer_active
           /\ Shows(images[t.state])
    /\ Handled("timer", "")
    /\ UNCHANGED <<sleep_timer_active, selected_character, combo_text, images, roots>>

\* the sleep timer's timeout
go_to_sleep ==
    /\ sleep_timer_active
    /\ LET t == SleepTransition(state, click_count, timer_active)
       IN  /\ state' = t.state
           /\ click_count' = t.click_count
           /\ timer_active' = t.timer_active
           /\ Shows(images[t.state])
    /\ Handled("sleep_timer", "")
    /\ UNCHANGED <<sleep_timer_active, selected_character, combo_text, images, roots>>

\* variant: the character's folder is taken to be there
CharacterFolderAssumed(rs, character_name) == TRUE

\* os.path.exists(character_folder)
CharacterFolderExists(rs, character_name) == character_name \in rs

\* the selector's currentTextChanged signal
change_character(character_name) ==
    /\ character_name \in CharacterFolders
    /\ character_name # combo_text
    /\ combo_text' = character_name
    /\ IF ~CharacterFolderExists(roots, character_name)
       THEN /\ diagnostic' = "folder_missing"
            /\ UNCHANGED <<state, click_count, timer_active, selected_character,
                           images, last_image, label>>
       ELSE LET t == ChangeTransition(state, click_count, timer_active)
            IN  /\ selected_character' = character_name
                /\ images' = load_images(images, roots, character_name)
                /\ state' = t.state
                /\ click_count' = t.click_count
                /\ timer_active' = t.timer_active
                /\ Shows(images'[t.state])
    /\ Handled("change_character", character_name)
    /\ UNCHANGED <<sleep_timer_active, roots>>

\* the environment: a character folder is deleted while the window is open
RemoveFolder(c) ==
    /\ c \in roots
    /\ Cardinality(Characters \ roots) < MaxRemoved
    /\ roots' = roots \ {c}
    /\ UNCHANGED <<state, click_count, timer_active, sleep_timer_active,
                   selected_character, combo_text, images, last_image, label,
                   diagnostic, last_event, pre, streak, wake_seq, wake_count>>

Next ==
    \/ \E b \in Buttons : handle_image_click(b)
    \/ reset_state
    \/ go_to_sleep
    \/ \E c \in Characters : change_character(c)
    \/ \E c \in Characters : RemoveFolder(c)

Spec == Init /\ [][Next]_vars

\* an active revert QTimer does time out: the event loop delivers its timeout
FairSpec == Spec /\ WF_vars(reset_state)

TypeOK ==
    /\ state \in STATES
    /\ click_count \in 0..ClickThreshold
    /\ timer_active \in BOOLEAN
    /\ sleep_timer_active \in BOOLEAN
    /\ selected_character \in Characters
    /\ streak \in 0..ClickThreshold
    /\ wake_seq \in 0..3
    /\ wake_count \in 0..ClickThreshold

---------------------------------------------------------------------------
(* Properties.  They are stated over the event handled last (last_event),  *)
(* the state it found (pre) and the state it left.                         *)

Transient == {"02_smile", "03_oko", "05_on"}

PrimaryClick == last_event = [kind |-> "click", arg |-> "left"]
RevertFired == last_event.kind = "timer"
SleepFired == last_event.kind = "sleep_timer"
\* a change_character call that found the character's folder
CharacterChanged == last_event.kind = "change_character" /\ diagnostic # "folder_missing"
\* the last event ran show_random_image
Showed ==
    \/ last_event.kind \in {"init", "timer", "sleep_timer"}
    \/ PrimaryClick
    \/ CharacterChanged

\* C1: counting primary clicks from state normal with click_count 0 and no
\* other event in between, after each of the first four the state is still
\* normal and click_count is the number of clicks; after the fifth the state
\* is smile or oko, click_count is 0 and the revert timer runs.
C1_FiveClicks ==
    /\ streak \in 1..(ClickThreshold - 1) =>
           state = "01_normal" /\ click_count = streak
    /\ streak = ClickThreshold =>
           state \in {"02_smile", "03_oko"} /\ click_count = 0 /\ timer_active

C1_Witness ==
    /\ streak = ClickThreshold
    /\ PrimaryClick
    /\ pre.state = "01_normal" /\ pre.click_count = ClickThreshold - 1
    /\ state = "03_oko"

\* C2: when the revert timer fires in smile, oko or on, the state becomes
\* normal and the revert timer is stopped; it fires only while running, so
\* it cannot fire again until a new transition starts it.
C2_RevertYieldsNormal ==
    /\ RevertFired /\ pre.state \in Transient =>
           state = "01_normal" /\ ~timer_active /\ pre.timer_active
    /\ ~timer_active => ~ENABLED reset_state

C2_Witness ==
    RevertFired /\ pre.state = "05_on" /\ state = "01_normal" /\ ~timer_active

\* C3 as stated: every character-change request, whatever it names, leaves
\* click_count 0 and state normal.
C3_EveryRequestResets ==
    last_event.kind = "change_character" => click_count = 0 /\ state = "01_normal"

\* C3 amended: a character-change request naming a character whose folder
\* exists leaves click_count 0 and state normal, from every state and count.
C3_AcceptedChangeResets ==
    CharacterChanged => click_count = 0 /\ state = "01_normal"

C3_Witness ==
    /\ CharacterChanged
    /\ pre.state = "04_sleep" /\ pre.click_count = 3
    /\ state = "01_normal" /\ click_count = 0

\* C4: a character change made in smile, oko or on with the revert timer
\* running leaves the revert timer stopped, so the revert scheduled before
\* never fires afterwards.
C4_ChangeDisarmsRevert ==
    /\ CharacterChanged /\ pre.state \in Transient /\ pre.timer_active => ~timer_active
    /\ ~(RevertFired /\ pre.state = "01_normal")

\* C5: the revert timer never takes the state from sleep to normal; the
\* state leaves sleep only by a primary click (to on) or a character change.
C5_SleepLeftOnlyByClickOrChange ==
    /\ ~(RevertFired /\ pre.state = "04_sleep" /\ state = "01_normal")
    /\ (last_event.kind # "init" /\ pre.state = "04_sleep" /\ state # "04_sleep") =>
           \/ PrimaryClick /\ state = "05_on"
           \/ CharacterChanged

\* C6: from a pool of at least two images the selection never yields
\* last_image, whatever last_image is; from the pool {a1, a2} with last_image
\* a1 it yields a2.
C6_PickAvoidsRepeat ==
    /\ \A s \in STATES :
           Cardinality(images[s]) >= 2 => last_image \notin Pick(images[s], last_image)
    /\ Showed /\ Cardinality(images[state]) >= 2 => last_image # pre.last_image
    /\ \A s \in STATES :
           /\ images[s] = {<<"charA", "01_normal", "a1", "png">>,
                           <<"charA", "01_normal", "a2", "JPG">>}
           /\ last_image = <<"charA", "01_normal", "a1", "png">>
           => Pick(images[s], last_image) = {<<"charA", "01_normal", "a2", "JPG">>}

C6_Witness ==
    /\ Showed
    /\ pre.last_image = <<"charA", "01_normal", "a1", "png">>
    /\ images[state] = {<<"charA", "01_normal", "a1", "png">>,
                        <<"charA", "01_normal", "a2", "JPG">>}
    /\ last_image = <<"charA", "01_normal", "a2", "JPG">>

\* C7: the selection yields no image exactly when the pool of the current
\* state is empty; from a non-empty pool, also one whose only image is
\* last_image, it yields a member of the pool.
C7_UnavailableIffEmpty ==
    /\ \A s \in STATES :
           LET picks == Pick(images[s], last_image)
           IN  /\ (Unavailable \in picks) <=> (images[s] = {})
               /\ images[s] # {} => picks # {} /\ picks \subseteq images[s]
    /\ Showed =>
           IF images[state] = {}
           THEN label = None /\ last_image = pre.last_image /\ diagnostic = "no_image"
           ELSE last_image \in images[state] /\ diagnostic # "no_image"

C7_Witness ==
    /\ Showed
    /\ Cardinality(images[state]) = 1
    /\ pre.last_image \in images[state]
    /\ last_image = pre.last_image /\ label = last_image

\* C8: after load_images at startup and after every character change, each
\* pool is exactly the accepted files of the selected character's subfolder
\* for that state, and empty where the subfolder is missing.
C8_PoolsAreTheCharactersFolders ==
    (last_event.kind = "init" \/ CharacterChanged) =>
        \A s \in STATES :
            images[s] = IF s \in StateFolders(selected_character)
                        THEN FolderImages(selected_character, s)
                        ELSE {}

\* C9: a primary click in sleep sets the state to on and starts the revert
\* timer; sleep tick from normal, click, revert pass sleep, on and end normal.
C9_ClickWakes ==
    /\ PrimaryClick /\ pre.state = "04_sleep" => state = "05_on" /\ timer_active
    /\ wake_seq = 1 => state = "04_sleep"
    /\ wake_seq = 2 => state = "05_on" /\ timer_active
    /\ wake_seq = 3 => state = "01_normal" /\ ~timer_active

C9_Witness ==
    wake_seq = 3 /\ RevertFired /\ pre.state = "05_on" /\ state = "01_normal"

\* C10: the sleep timer runs in every reachable state, and each of its fires
\* sets the state to sleep, whatever the state was.
C10_SleepTimerAlwaysArmed ==
    /\ sleep_timer_active
    /\ ENABLED go_to_sleep
    /\ SleepFired => state = "04_sleep"

C10_Witness ==
    SleepFired /\ pre.state = "05_on" /\ pre.timer_active /\ state = "04_sleep"

\* C11: under FairSpec (an active revert timer does time out), whenever the
\* state is smile, oko or on it is later normal, whatever clicks, sleep
\* ticks and character changes come in between.
C11_TransientReverts ==
    (state \in Transient) ~> (state = "01_normal")

C11_Witness ==
    RevertFired /\ pre.state = "02_smile" /\ pre.timer_active /\ state = "01_normal"

\* what show_random_image leaves of the label and last_image when it is run
\* on the pool of the state the handler ends in
ShownFromPool ==
    IF images[state] = {}
    THEN label = None /\ last_image = pre.last_image
    ELSE /\ last_image \in Candidates(images[state], pre.last_image)
         /\ label = (IF last_image \in Unreadable THEN None ELSE last_image)

\* C12 as stated: a primary click in smile, oko or on changes nothing: state,
\* click_count, the revert timer, the label and last_image stay as they were.
C12_TransientClickChangesNothing ==
    PrimaryClick /\ pre.state \in Transient =>
        /\ state = pre.state
        /\ click_count = pre.click_count
        /\ timer_active = pre.timer_active
        /\ label = pre.label
        /\ last_image = pre.last_image

\* C12 amended: a primary click in smile, oko or on leaves state, click_count
\* and the revert timer as they were, and shows a new image picked from the
\* pool of that state (the label and last_image change with it).
C12_TransientClickKeepsMood ==
    PrimaryClick /\ pre.state \in Transient =>
        /\ state = pre.state
        /\ click_count = pre.click_count
        /\ timer_active = pre.timer_active
        /\ ShownFromPool

C12_Witness ==
    /\ PrimaryClick
    /\ pre.state = "02_smile" /\ state = "02_smile" /\ timer_active
    /\ pre.label = <<"charA", "02_smile", "as", "Jpeg">>
    /\ label = <<"charA", "02_smile", "as2", "png">>

\* C13: a click with another button than the left one changes nothing in any
\* state: state, click_count, the revert timer, the label and last_image stay.
C13_OtherButtonIgnored ==
    last_event.kind = "click" /\ last_event.arg # "left" =>
        /\ state = pre.state
        /\ click_count = pre.click_count
        /\ timer_active = pre.timer_active
        /\ label = pre.label
        /\ last_image = pre.last_image
        /\ images = pre.images
        /\ selected_character = pre.selected_character

C13_Witness ==
    /\ last_event = [kind |-> "click", arg |-> "right"]
    /\ pre.state = "04_sleep" /\ state = "04_sleep"
    /\ pre.click_count = 2 /\ click_count = 2

\* C14: click_count changes only by a primary click in normal (plus one, or
\* back to 0 on the fifth) and by a character change (to 0); the two timers
\* and clicks in the other states leave it, so the count a sleep tick finds
\* in normal is still there after sleep, on and the revert to normal.
C14_ClickCountFrame ==
    /\ (last_event.kind # "init" /\ click_count # pre.click_count) =>
           \/ /\ PrimaryClick /\ pre.state = "01_normal"
              /\ \/ click_count = pre.click_count + 1
                 \/ click_count = 0 /\ pre.click_count = ClickThreshold - 1
           \/ CharacterChanged /\ click_count = 0
    /\ (SleepFired \/ RevertFired \/ (PrimaryClick /\ pre.state # "01_normal")) =>
           click_count = pre.click_count
    /\ wake_seq \in 1..3 => click_count = wake_count

C14_Witness ==
    wake_seq = 3 /\ state = "01_normal" /\ wake_count = 3 /\ click_count = 3

\* C15 as stated: last_image changes only when an image is displayed and is
\* then that image; it stays when no image is available and when displaying
\* the chosen image fails; once set it is never cleared.
C15_LastImageOnlyOnDisplay ==
    last_event.kind # "init" =>
        /\ last_image # pre.last_image => label = last_image
        /\ label = None => last_image = pre.last_image
        /\ pre.last_image # None => last_image # None

\* C15 amended: last_image changes only when show_random_image selects an
\* image and is then the selected image, also when displaying it fails (the
\* label is then cleared); when an image is displayed it is last_image; it
\* stays when no image is available; once set it is never cleared.
C15_LastImageOnSelection ==
    /\ last_image # pre.last_image =>
           /\ Showed
           /\ last_image \in images[state]
           /\ label = (IF last_image \in Unreadable THEN None ELSE last_image)
    /\ label # None => label = last_image
    /\ Showed /\ images[state] = {} => last_image = pre.last_image
    /\ Showed /\ images[state] # {} => last_image \in images[state]
    /\ pre.last_image # None => last_image # None

C15_Witness ==
    /\ Showed /\ diagnostic = "display_failed"
    /\ pre.last_image = <<"charB", "01_normal", "b1", "png">>
    /\ last_image = <<"charB", "01_normal", "b2", "png">>
    /\ label = None

\* C16: in every reachable state click_count is between 0 and 4.
C16_ClickCountRange ==
    click_count \in 0..(ClickThreshold - 1)

C16_Witness ==
    click_count = ClickThreshold - 1 /\ state = "04_sleep" /\ SleepFired

\* C17: in every reachable state in smile, oko or on the revert timer runs.
C17_TransientHasRevert ==
    state \in Transient => timer_active

C17_Witness ==
    state = "03_oko" /\ timer_active /\ PrimaryClick /\ pre.state = "03_oko"

\* a change_character call that did not find the character's folder
ChangeRejected ==
    last_event.kind = "change_character" /\ last_event.arg \notin pre.roots

\* C18: a character-change request naming a character whose folder is gone is
\* reported and leaves selected_character, the five pools, state,
\* click_count, the revert timer and last_image as they were.
C18_MissingFolderRejected ==
    ChangeRejected =>
        /\ diagnostic = "folder_missing"
        /\ selected_character = pre.selected_character
        /\ images = pre.images
        /\ state = pre.state
        /\ click_count = pre.click_count
        /\ timer_active = pre.timer_active
        /\ last_image = pre.last_image
        /\ label = pre.label

C18_Witness ==
    /\ ChangeRejected
    /\ diagnostic = "folder_missing"
    /\ state = "02_smile" /\ timer_active
    /\ selected_character = "charA" /\ last_event.arg = "charB"

\* C19: the label shows nothing or an image of the selected character's
\* folder for the current state, never one of another state or of a
\* character selected before.
C19_LabelFromSelectedCharacter ==
    label # None => label \in FolderImages(selected_character, state)

====
